---- MODULE Spec2Model ----
(***************************************************************************)
(* cert-catcher: a store of TLS certificate material keyed by the name of  *)
(* the tailnet node that makes the request (cmd/cert-catcher).             *)
(*                                                                         *)
(* Go strings are modelled as tuples of one-character strings, so that     *)
(* strings.HasSuffix, strings.Replace, strings.Split and fmt.Sprintf are   *)
(* computed character by character as the library computes them.           *)
(***************************************************************************)
EXTENDS Integers, Sequences, FiniteSets, TLC

(***************************************************************************)
(* Bounds of the model.                                                    *)
(***************************************************************************)
\* Requests the listener accepts over the whole behaviour.
MaxRequests == 2

(***************************************************************************)
(* String literals of the program.                                         *)
(***************************************************************************)
EmptyString == <<>>
NewLine == "\n"
CertMarker ==
  <<"-", "-", "-", "-", "-", "B", "E", "G", "I", "N", " ", "C", "E", "R", "T", "I", "F", "I", "C", "A", "T", "E", "-", "-", "-", "-", "-">>
KeyMarker ==
  <<"-", "-", "-", "-", "-", "B", "E", "G", "I", "N", " ", "P", "R", "I", "V", "A", "T", "E", " ", "K", "E", "Y", "-", "-", "-", "-", "-">>
CertEnd ==
  <<"-", "-", "-", "-", "-", "E", "N", "D", " ", "C", "E", "R", "T", "I", "F", "I", "C", "A", "T", "E", "-", "-", "-", "-", "-">>
PathSh == <<"/", "s", "h">>
PathDays == <<"/", "d", "a", "y", "s">>
PathCert == <<"/", "c", "e", "r", "t">>
PathKey == <<"/", "k", "e", "y">>
PathRoot == <<"/">>
SlotCert == <<"c", "e", "r", "t">>
SlotKey == <<"k", "e", "y">>
ScriptFile == <<"#", "!", "/", "b", "i", "n", "/", "s", "h", "\n">>
MsgWhoIs == <<"w", "h", "o", "i", "s">>
MsgNotFound == <<"4", "0", "4", " ", "p", "a", "g", "e", " ", "n", "o", "t", " ", "f", "o", "u", "n", "d">>
MsgDecode == <<"E", "r", "r", "o", "r", " ", "d", "e", "c", "o", "d", "i", "n", "g", " ", "C", "E", "R", "T", ":", " ", "<", "n", "i", "l", ">">>
MsgParse == <<"E", "r", "r", "o", "r", " ", "p", "a", "r", "s", "i", "n", "g", " ", "C", "E", "R", "T", ":", " ", "x", "5", "0", "9">>
MsgInvalidPathA == <<"i", "n", "v", "a", "l", "i", "d", " ", "p", "a", "t", "h", "=", "[">>
MsgInvalidPathB == <<"]", " ", "u", "s", "e", " ", "/", "c", "e", "r", "t", " ", "o", "r", " ", "/", "k", "e", "y", " ", "p", "a", "t", "h", "s">>
MsgReading == <<"E", "r", "r", "o", "r", " ", "r", "e", "a", "d", "i", "n", "g", " ", "c", "o", "n", "t", "e", "n", "t", ":", " ", "E", "O", "F">>
MsgProvide == <<"P", "l", "e", "a", "s", "e", ",", " ", "p", "r", "o", "v", "i", "d", "e", " ", "a", " ", "c", "e", "r", "t", " ", "o", "r", " ", "a", " ", "k", "e", "y">>
MsgMethod == <<"M", "e", "t", "h", "o", "d", " ", "n", "o", "t", " ", "s", "u", "p", "p", "o", "r", "t", "e", "d">>
MsgNo == <<"n", "o", " ">>
MsgFor == <<" ", "f", "o", "r", " ">>
MsgSaved == <<" ", "s", "a", "v", "e", "d", ".">>
TmpPattern == <<"/", "t", "m", "p", "/", "t", "e", "m", "p", "f", "i", "l", "e", "_">>

\* HTTP status codes used by the handler.
StatusOK == 200
StatusBadRequest == 400
StatusNotFound == 404
StatusMethodNotAllowed == 405
StatusInternalServerError == 500
\* Hours in a day: the divisor of diff.Hours() / 24.
HoursPerDay == 24

(***************************************************************************)
(* Inputs of the model: node names the resolver delivers, request methods, *)
(* request paths, request bodies and wall-clock instants (in hours).       *)
(***************************************************************************)
NodeM3 == <<"m", "3">>
NodeM3Dot == <<"m", "3", ".">>
NodeN1Dot == <<"n", "1", ".">>
NodeNames == {NodeM3, NodeM3Dot, NodeN1Dot}

Methods == {"GET", "POST", "PUT"}
Paths == {PathSh, PathDays, PathCert, PathKey, PathRoot}
\* Paths of the POST requests.
PostPaths == {PathRoot, PathCert, PathKey, PathDays, PathSh}
\* Paths of the requests of another method.
OtherPaths == {PathRoot, PathSh}

\* A certificate whose notAfter is hour 241: the DER payload is abstracted
\* to the decimal notAfter hour.
CertA == CertMarker \o <<NewLine>> \o <<"2", "4", "1">> \o <<NewLine>> \o CertEnd \o <<NewLine>>
\* A PEM block whose payload is no certificate.
CertJunk == CertMarker \o <<NewLine>> \o <<"x", "y">> \o <<NewLine>> \o CertEnd \o <<NewLine>>
\* The marker line alone: no PEM block.
CertBare == CertMarker
KeyA == KeyMarker \o <<NewLine>> \o <<"k", "1">>
KeyB == KeyMarker \o <<NewLine>> \o <<"k", "2">>
Hello == <<"h", "e", "l", "l", "o", "\n", "w", "o", "r", "l", "d">>
\* Marker followed by extra characters on the first line.
CertExtra == CertMarker \o <<" ", "\n", "a", "b", "c">>
\* The marker on the second line only.
CertSecond == <<NewLine>> \o CertA
KeySecond == <<"h", "e", "l", "l", "o", "\n">> \o KeyA

CertBodies == {CertA, CertJunk, CertBare}
KeyBodies == {KeyA, KeyB}
OtherBodies == {EmptyString, Hello, CertExtra, CertSecond, KeySecond}
Bodies == CertBodies \cup KeyBodies \cup OtherBodies
\* Bodies posted to a path: every body to "/", one certificate and one
\* key to the other paths.
PostBodies(path) == IF path = PathRoot THEN Bodies ELSE {CertA, KeyA}

\* Readings of time.Now(), in hours.
Instants == {0, 1, 242, 265, 266}

\* Numbers os.CreateTemp draws file names from: one per request is enough.
TempNumbers == 1..MaxRequests

(***************************************************************************)
(* Library functions on strings.                                           *)
(***************************************************************************)
\* strings.HasSuffix
HasSuffix(s, suffix) ==
  /\ Len(s) >= Len(suffix)
  /\ SubSeq(s, Len(s) - Len(suffix) + 1, Len(s)) = suffix

\* strings.HasPrefix
HasPrefix(s, prefix) ==
  /\ Len(s) >= Len(prefix)
  /\ SubSeq(s, 1, Len(prefix)) = prefix

\* strings.Index for a one-character separator: 0 when absent.
Index(s, c) ==
  IF \E i \in 1..Len(s) : s[i] = c
  THEN CHOOSE i \in 1..Len(s) : s[i] = c /\ \A j \in 1..(i - 1) : s[j] # c
  ELSE 0

\* strings.Replace(s, old, "", 1) for a one-character old.
ReplaceFirst(s, c) ==
  LET i == Index(s, c)
  IN IF i = 0 THEN s ELSE SubSeq(s, 1, i - 1) \o SubSeq(s, i + 1, Len(s))

\* strings.Split(s, sep) for a one-character separator.
RECURSIVE Split(_, _)
Split(s, sep) ==
  LET i == Index(s, sep)
  IN IF i = 0 THEN <<s>>
     ELSE <<SubSeq(s, 1, i - 1)>> \o Split(SubSeq(s, i + 1, Len(s)), sep)

\* strings.Join(lines, "")
RECURSIVE Concat(_)
Concat(lines) ==
  IF lines = <<>> THEN <<>> ELSE Head(lines) \o Concat(Tail(lines))

Digits == <<"0", "1", "2", "3", "4", "5", "6", "7", "8", "9">>
IsDigit(c) == \E d \in 1..10 : Digits[d] = c
DigitValue(c) == (CHOOSE d \in 1..10 : Digits[d] = c) - 1

\* Decimal value of a string of digits.
RECURSIVE Atoi(_)
Atoi(s) ==
  IF s = <<>> THEN 0
  ELSE Atoi(SubSeq(s, 1, Len(s) - 1)) * 10 + DigitValue(s[Len(s)])

\* fmt's %d of a non-negative integer.
RECURSIVE Utoa(_)
Utoa(n) ==
  IF n < 10 THEN <<Digits[n + 1]>> ELSE Utoa(n \div 10) \o <<Digits[(n % 10) + 1]>>

\* fmt's %d
Itoa(n) == IF n < 0 THEN <<"-">> \o Utoa(0 - n) ELSE Utoa(n)

(***************************************************************************)
(* Helpers of cert-catcher.go.                                             *)
(***************************************************************************)
\* Remove the suffix '.' in the node name if necessary.
cleanNodeName(nn) ==
  IF HasSuffix(nn, <<".">>) THEN SubSeq(nn, 1, Len(nn) - 1) ELSE nn

pathToCertOrKey(path) == ReplaceFirst(path, "/")

\* A faulty genFileName: the node name is used as it comes.
genFileNameRaw(nodeName, path) ==
  nodeName \o <<".">> \o pathToCertOrKey(path)

\* m3.tailnetfoo.net, /cert -> m3.tailnetfoo.net.cert
genFileName(nodeName, path) ==
  cleanNodeName(nodeName) \o <<".">> \o pathToCertOrKey(path)

\* A faulty processBody: the first line need only start with the marker.
processBodyPrefix(body) ==
  LET lines == Split(body, NewLine)
  IN IF HasPrefix(lines[1], CertMarker) THEN <<body, SlotCert>>
     ELSE IF HasPrefix(lines[1], KeyMarker) THEN <<body, SlotKey>>
     ELSE <<EmptyString, EmptyString>>

\* A faulty processBody: whatever is no key is taken for a cert.
processBodyDefault(body) ==
  LET lines == Split(body, NewLine)
  IN IF lines[1] = KeyMarker THEN <<body, SlotKey>> ELSE <<body, SlotCert>>

\* Returns <<contents, certOrKey>>; certOrKey is "" when the body is neither.
processBody(body) ==
  LET lines == Split(body, NewLine)
  IN IF lines[1] = CertMarker THEN <<body, SlotCert>>
     ELSE IF lines[1] = KeyMarker THEN <<body, SlotKey>>
     ELSE <<EmptyString, EmptyString>>

(***************************************************************************)
(* encoding/pem and crypto/x509, as far as the handler uses them.  A PEM   *)
(* block is the BEGIN line, payload lines and the END line; the payload    *)
(* stands for the base64 DER bytes.  A certificate is a payload of decimal *)
(* digits, read as the notAfter instant in hours.                          *)
(***************************************************************************)
Min(S) == CHOOSE x \in S : \A y \in S : x <= y

\* pem.Decode: [ok |-> FALSE] stands for a nil block.
pemDecode(data) ==
  LET lines == Split(data, NewLine)
      ends == {j \in 2..Len(lines) : lines[j] = CertEnd}
  IN IF lines[1] = CertMarker /\ ends # {}
     THEN [ok |-> TRUE, Bytes |-> Concat(SubSeq(lines, 2, Min(ends) - 1))]
     ELSE [ok |-> FALSE, Bytes |-> EmptyString]

\* x509.ParseCertificate: [ok |-> FALSE] stands for a non-nil error.
ParseCertificate(bytes) ==
  IF bytes # <<>> /\ \A i \in 1..Len(bytes) : IsDigit(bytes[i])
  THEN [ok |-> TRUE, NotAfter |-> Atoi(bytes)]
  ELSE [ok |-> FALSE, NotAfter |-> 0]

\* Go's conversion int(f) of a float: truncation toward zero.
TruncDiv(a, b) == IF a >= 0 THEN a \div b ELSE 0 - ((0 - a) \div b)

\* days := int(cert.NotAfter.Sub(now).Hours() / 24)
DaysLeft(notAfter, now) == TruncDiv(notAfter - now, HoursPerDay)

(***************************************************************************)
(* net/http's ResponseWriter: the status is fixed by the first WriteHeader *)
(* or the first Write, whichever comes first; status 0 is "nothing sent".  *)
(***************************************************************************)
NoResponse == [status |-> 0, body |-> EmptyString]

WriteHeader(w, code) == IF w.status = 0 THEN [w EXCEPT !.status = code] ELSE w

Write(w, data) ==
  [status |-> IF w.status = 0 THEN StatusOK ELSE w.status, body |-> w.body \o data]

\* http.Error: WriteHeader(code), then Fprintln(w, error).
Error(w, error, code) == Write(WriteHeader(w, code), error \o <<NewLine>>)

\* http.NotFound
NotFound(w) == Error(w, MsgNotFound, StatusNotFound)

(***************************************************************************)
(* Go maps as functions; the domain is the set of keys present.            *)
(***************************************************************************)
EmptyMap == [k \in {} |-> EmptyString]
Put(map, key, value) ==
  [k \in (DOMAIN map) \cup {key} |-> IF k = key THEN value ELSE map[k]]
Delete(map, key) == [k \in (DOMAIN map) \ {key} |-> map[k]]

(***************************************************************************)
(* MemStore: nodeName -> [key/cert] -> contents.                           *)
(***************************************************************************)
MemStoreGet(m, nodeName, path) ==
  IF nodeName \notin DOMAIN m THEN <<EmptyString, FALSE>>
  ELSE IF pathToCertOrKey(path) \in DOMAIN m[nodeName]
       THEN <<m[nodeName][pathToCertOrKey(path)], TRUE>>
       ELSE <<EmptyString, FALSE>>

\* A faulty Upset: the inner map is made anew on every call.
MemStoreUpsetFresh(m, nodeName, contents, certOrKey) ==
  Put(m, nodeName, Put(EmptyMap, certOrKey, contents))

\* A faulty Upset: every node shares one inner map, so the write shows up
\* under every node name present.
MemStoreUpsetShared(m, nodeName, contents, certOrKey) ==
  LET m1 == IF nodeName \notin DOMAIN m THEN Put(m, nodeName, EmptyMap) ELSE m
  IN [k \in DOMAIN m1 |-> Put(m1[k], certOrKey, contents)]

\* The map after m.Upset(nodeName, contents, certOrKey).
MemStoreUpset(m, nodeName, contents, certOrKey) ==
  LET m1 == IF nodeName \notin DOMAIN m THEN Put(m, nodeName, EmptyMap) ELSE m
  IN Put(m1, nodeName, Put(m1[nodeName], certOrKey, contents))

(***************************************************************************)
(* DiskStore: one file per node name and slot; fs maps the names of the    *)
(* existing files to their contents.                                       *)
(***************************************************************************)
DiskStoreGet(fs, nodeName, path) ==
  LET filename == cleanNodeName(nodeName) \o <<".">> \o pathToCertOrKey(path)
  IN IF filename \in DOMAIN fs THEN <<fs[filename], TRUE>>
     ELSE <<EmptyString, FALSE>>

\* The name os.CreateTemp("", "tempfile_") gives the file numbered n.
TempName(n) == TmpPattern \o Itoa(n)

\* A faulty rename: the new content is appended to the file in place.
RenameAppend(fs, oldpath, newpath) ==
  Delete(Put(fs, newpath,
             (IF newpath \in DOMAIN fs THEN fs[newpath] ELSE EmptyString)
               \o fs[oldpath]),
         oldpath)

\* os.Rename(oldpath, newpath): newpath is replaced in one step.
Rename(fs, oldpath, newpath) == Delete(Put(fs, newpath, fs[oldpath]), oldpath)

\* os.Remove(name); the error for a missing file is ignored by the caller.
Remove(fs, name) == Delete(fs, name)

(***************************************************************************)
(* State of the process and of its environment.                            *)
(***************************************************************************)
VARIABLES
  saveToDisk,  \* the -disk flag: DiskStore when TRUE, MemStore otherwise
  store,       \* the MemStore map (empty and unused under -disk)
  files,       \* the file system: file name -> contents
  mu,          \* the handler holding the mutex, 0 when unlocked
  handlers,    \* per request goroutine: position, locals and response
  process,     \* "running", or how the process ended: "fatal", "killed"
  requests     \* requests accepted so far

vars == <<saveToDisk, store, files, mu, handlers, process, requests>>

Running == process = "running"

Handlers == {1, 2}

Missing == <<EmptyString, FALSE>>

\* A goroutine with no request.  old is the value of store.Get for the
\* written slot when Upset was called (kept for the properties only).
Idle ==
  [pc |-> "idle", nn |-> EmptyString, method |-> "", path |-> EmptyString,
   body |-> EmptyString, contents |-> EmptyString, certOrKey |-> EmptyString,
   tmpFile |-> EmptyString, err |-> FALSE, now |-> 0, old |-> Missing,
   w |-> NoResponse]

\* store.Get(nodeName, path) in the current state.
Get(nodeName, path) ==
  IF saveToDisk THEN DiskStoreGet(files, nodeName, path)
  ELSE MemStoreGet(store, nodeName, path)

\* Whether uploads of nodes x and y to a slot go to the same stored record.
SameRecord(x, y) ==
  IF saveToDisk THEN cleanNodeName(x) = cleanNodeName(y) ELSE x = y

Init ==
  /\ saveToDisk \in BOOLEAN
  /\ store = EmptyMap
  /\ files = EmptyMap
  /\ mu = 0
  /\ handlers = [h \in Handlers |-> Idle]
  /\ process = "running"
  /\ requests = 0

(***************************************************************************)
(* The HTTP handler, lines 83-166.                                         *)
(***************************************************************************)
\* http.Serve starts a goroutine for an incoming request.  The method, the
\* path and the body of the request are drawn where the handler first reads
\* them, after mu.Lock().
Accept(h) ==
  /\ Running
  /\ requests < MaxRequests
  /\ handlers[h].pc = "idle"
  /\ handlers' = [handlers EXCEPT ![h].pc = "whois"]
  /\ requests' = requests + 1
  /\ UNCHANGED <<saveToDisk, store, files, mu, process>>

\* lc.WhoIs returns the node of the peer.
WhoIs(h, nn) ==
  /\ Running
  /\ handlers[h].pc = "whois"
  /\ handlers' = [handlers EXCEPT ![h].pc = "lock", ![h].nn = nn]
  /\ UNCHANGED <<saveToDisk, store, files, mu, process, requests>>

\* A faulty handler that goes on after a failed WhoIs, with no node name.
WhoIsErrorIgnored(h) ==
  /\ Running
  /\ handlers[h].pc = "whois"
  /\ handlers' = [handlers EXCEPT ![h].pc = "lock"]
  /\ UNCHANGED <<saveToDisk, store, files, mu, process, requests>>

\* lc.WhoIs returns an error: http.Error(w, err.Error(), 500); return.
WhoIsError(h) ==
  /\ Running
  /\ handlers[h].pc = "whois"
  /\ handlers' = [handlers EXCEPT
       ![h].pc = "served",
       ![h].w = Error(NoResponse, MsgWhoIs, StatusInternalServerError)]
  /\ UNCHANGED <<saveToDisk, store, files, mu, process, requests>>

\* A faulty lock that does not wait for the holder to unlock.
LockNoWait(h) ==
  /\ Running
  /\ handlers[h].pc = "lock"
  /\ mu' = h
  /\ handlers' = [handlers EXCEPT ![h].pc = "route"]
  /\ UNCHANGED <<saveToDisk, store, files, process, requests>>

\* mu.Lock()
Lock(h) ==
  /\ Running
  /\ handlers[h].pc = "lock"
  /\ mu = 0
  /\ mu' = h
  /\ handlers' = [handlers EXCEPT ![h].pc = "route"]
  /\ UNCHANGED <<saveToDisk, store, files, process, requests>>

\* GET /sh: http.ServeFile(w, r, "./getCacher.sh")
ServeSh(h) ==
  /\ Running
  /\ handlers[h].pc = "route"
  /\ handlers' = [handlers EXCEPT
       ![h].pc = "served", ![h].method = "GET", ![h].path = PathSh,
       ![h].w = Write(NoResponse, ScriptFile)]
  /\ UNCHANGED <<saveToDisk, store, files, mu, process, requests>>

\* A faulty /days: found is not looked at, a miss goes on to pem.Decode.
DaysResponseUnchecked(nn, now) ==
  LET got == Get(nn, PathCert)
      block == pemDecode(got[1])
      cert == ParseCertificate(block.Bytes)
  IN IF ~block.ok
     THEN Error(NoResponse, MsgDecode, StatusInternalServerError)
     ELSE IF ~cert.ok
          THEN Error(NoResponse, MsgParse, StatusInternalServerError)
     ELSE Write(NoResponse, Itoa(DaysLeft(cert.NotAfter, now)) \o <<NewLine>>)

\* The response of GET /days when time.Now() reads now.
DaysResponse(nn, now) ==
  LET got == Get(nn, PathCert)
      block == pemDecode(got[1])
      cert == ParseCertificate(block.Bytes)
  IN IF ~got[2] THEN NotFound(NoResponse)
     ELSE IF ~block.ok
          THEN Error(NoResponse, MsgDecode, StatusInternalServerError)
     ELSE IF ~cert.ok
          THEN Error(NoResponse, MsgParse, StatusInternalServerError)
     ELSE Write(NoResponse, Itoa(DaysLeft(cert.NotAfter, now)) \o <<NewLine>>)

\* GET /days
ServeDays(h, now) ==
  /\ Running
  /\ handlers[h].pc = "route"
  /\ handlers' = [handlers EXCEPT
       ![h].pc = "served", ![h].method = "GET", ![h].path = PathDays,
       ![h].now = now,
       ![h].w = DaysResponse(handlers[h].nn, now)]
  /\ UNCHANGED <<saveToDisk, store, files, mu, process, requests>>

\* The response of GET path for a path other than /sh and /days.
GetResponse(nn, path) ==
  LET got == Get(nn, path)
  IN IF path # PathCert /\ path # PathKey
     THEN Error(NoResponse, MsgInvalidPathA \o path \o MsgInvalidPathB,
                StatusBadRequest)
     ELSE IF got[2] THEN Write(NoResponse, got[1])
     ELSE NotFound(Write(NoResponse, MsgNo \o path \o MsgFor \o nn))

\* GET of any other path: the cert or the key depending on the path.
ServeGet(h, path) ==
  /\ Running
  /\ handlers[h].pc = "route"
  /\ path # PathSh /\ path # PathDays
  /\ handlers' = [handlers EXCEPT
       ![h].pc = "served", ![h].method = "GET", ![h].path = path,
       ![h].w = GetResponse(handlers[h].nn, path)]
  /\ UNCHANGED <<saveToDisk, store, files, mu, process, requests>>

\* fmt.Fprintf(w, "%s %s saved.", nn, certOrKey)
Saved(w, nn, certOrKey) == Write(w, nn \o <<" ">> \o certOrKey \o MsgSaved)

\* A faulty POST that files a body posted to /cert or /key under the slot
\* of the path.
ServePostByPath(h, path, body) ==
  LET nn == handlers[h].nn
      contents == processBody(body)[1]
      certOrKey == IF processBody(body)[2] # EmptyString /\ path \in {PathCert, PathKey}
                   THEN pathToCertOrKey(path) ELSE processBody(body)[2]
      read == [handlers[h] EXCEPT
                 !.method = "POST", !.path = path, !.body = body,
                 !.contents = contents, !.certOrKey = certOrKey]
  IN /\ Running
     /\ handlers[h].pc = "route"
     /\ IF certOrKey = EmptyString
        THEN /\ handlers' = [handlers EXCEPT ![h] = [read EXCEPT
                  !.pc = "served",
                  !.w = Error(NoResponse, MsgProvide, StatusInternalServerError)]]
             /\ UNCHANGED store
        ELSE IF saveToDisk
        THEN /\ handlers' = [handlers EXCEPT ![h] = [read EXCEPT
                  !.pc = "CreateTemp", !.old = Get(nn, certOrKey)]]
             /\ UNCHANGED store
        ELSE /\ store' = MemStoreUpset(store, nn, contents, certOrKey)
             /\ handlers' = [handlers EXCEPT ![h] = [read EXCEPT
                  !.pc = "served", !.old = Get(nn, certOrKey),
                  !.w = Saved(NoResponse, nn, certOrKey)]]
     /\ UNCHANGED <<saveToDisk, files, mu, process, requests>>

\* POST: io.ReadAll, processBody and, for a cert or a key, store.Upset.
\* MemStore.Upset is one map assignment; DiskStore.Upset goes on step by
\* step from "CreateTemp".
ServePost(h, path, body) ==
  LET nn == handlers[h].nn
      contents == processBody(body)[1]
      certOrKey == processBody(body)[2]
      read == [handlers[h] EXCEPT
                 !.method = "POST", !.path = path, !.body = body,
                 !.contents = contents, !.certOrKey = certOrKey]
  IN /\ Running
     /\ handlers[h].pc = "route"
     /\ IF certOrKey = EmptyString
        THEN /\ handlers' = [handlers EXCEPT ![h] = [read EXCEPT
                  !.pc = "served",
                  !.w = Error(NoResponse, MsgProvide, StatusInternalServerError)]]
             /\ UNCHANGED store
        ELSE IF saveToDisk
        THEN /\ handlers' = [handlers EXCEPT ![h] = [read EXCEPT
                  !.pc = "CreateTemp", !.old = Get(nn, certOrKey)]]
             /\ UNCHANGED store
        ELSE /\ store' = MemStoreUpset(store, nn, contents, certOrKey)
             /\ handlers' = [handlers EXCEPT ![h] = [read EXCEPT
                  !.pc = "served", !.old = Get(nn, certOrKey),
                  !.w = Saved(NoResponse, nn, certOrKey)]]
     /\ UNCHANGED <<saveToDisk, files, mu, process, requests>>

\* POST whose body cannot be read: io.ReadAll returns an error.
ServePostReadError(h) ==
  /\ Running
  /\ handlers[h].pc = "route"
  /\ handlers' = [handlers EXCEPT
       ![h].pc = "served", ![h].method = "POST",
       ![h].w = Error(NoResponse, MsgReading, StatusInternalServerError)]
  /\ UNCHANGED <<saveToDisk, store, files, mu, process, requests>>

\* Any other method.
ServeOther(h, method, path) ==
  /\ Running
  /\ handlers[h].pc = "route"
  /\ method # "GET" /\ method # "POST"
  /\ handlers' = [handlers EXCEPT
       ![h].pc = "served", ![h].method = method, ![h].path = path,
       ![h].w = Error(NoResponse, MsgMethod, StatusMethodNotAllowed)]
  /\ UNCHANGED <<saveToDisk, store, files, mu, process, requests>>

\* A faulty handler that returns without the deferred mu.Unlock().
ReturnNoUnlock(h) ==
  /\ Running
  /\ handlers[h].pc = "served"
  /\ handlers' = [handlers EXCEPT ![h] = Idle]
  /\ UNCHANGED <<saveToDisk, store, files, mu, process, requests>>

\* A faulty handler that unlocks on the success path only, with no defer.
ReturnUnlockOnSuccess(h) ==
  /\ Running
  /\ handlers[h].pc = "served"
  /\ handlers' = [handlers EXCEPT ![h] = Idle]
  /\ mu' = IF mu = h /\ handlers[h].w.status = StatusOK THEN 0 ELSE mu
  /\ UNCHANGED <<saveToDisk, store, files, process, requests>>

\* The handler returns: the deferred mu.Unlock() runs if mu was locked.
Return(h) ==
  /\ Running
  /\ handlers[h].pc = "served"
  /\ handlers' = [handlers EXCEPT ![h] = Idle]
  /\ mu' = IF mu = h THEN 0 ELSE mu
  /\ UNCHANGED <<saveToDisk, store, files, process, requests>>

(***************************************************************************)
(* DiskStore.Upset, lines 213-232, one action per system call.  The caller *)
(* discards the error Upset returns and writes the confirmation.           *)
(***************************************************************************)
\* The handler after Upset has returned: err is its result.
UpsetReturned(r, err) ==
  [r EXCEPT !.pc = "served", !.err = err,
            !.w = Saved(NoResponse, r.nn, r.certOrKey)]

\* os.CreateTemp succeeds: an empty file under a name not in use (which of
\* the unused names is immaterial: the least number stands for it).
CreateTemp(h, n) ==
  /\ Running
  /\ handlers[h].pc = "CreateTemp"
  /\ TempName(n) \notin DOMAIN files
  /\ \A k \in 1..(n - 1) : TempName(k) \in DOMAIN files
  /\ files' = Put(files, TempName(n), EmptyString)
  /\ handlers' = [handlers EXCEPT ![h].pc = "WriteString", ![h].tmpFile = TempName(n)]
  /\ UNCHANGED <<saveToDisk, store, mu, process, requests>>

\* os.CreateTemp fails: Upset returns the error.
CreateTempError(h) ==
  /\ Running
  /\ handlers[h].pc = "CreateTemp"
  /\ handlers' = [handlers EXCEPT ![h] = UpsetReturned(handlers[h], TRUE)]
  /\ UNCHANGED <<saveToDisk, store, files, mu, process, requests>>

\* A faulty Upset that writes in place, to the final file.
WriteTargetFinal(r) == genFileName(r.nn, r.certOrKey)

\* The file tmpFile.WriteString writes to: the temporary file.
WriteTarget(r) == r.tmpFile

\* tmpFile.WriteString: the first half of contents reaches the file.
WriteString(h) ==
  LET r == handlers[h]
  IN /\ Running
     /\ r.pc = "WriteString"
     /\ files' = Put(files, WriteTarget(r), SubSeq(r.contents, 1, Len(r.contents) \div 2))
     /\ handlers' = [handlers EXCEPT ![h].pc = "WriteRest"]
     /\ UNCHANGED <<saveToDisk, store, mu, process, requests>>

\* tmpFile.WriteString: the rest of contents reaches the file.
WriteRest(h) ==
  LET r == handlers[h]
  IN /\ Running
     /\ r.pc = "WriteRest"
     /\ files' = Put(files, WriteTarget(r), r.contents)
     /\ handlers' = [handlers EXCEPT ![h].pc = "Close"]
     /\ UNCHANGED <<saveToDisk, store, mu, process, requests>>

\* A faulty cleanup after a failed write: the final file is removed as
\* well as the temporary file.
WriteStringErrorFinal(h) ==
  LET r == handlers[h]
  IN /\ Running
     /\ r.pc \in {"WriteString", "WriteRest"}
     /\ files' = Remove(Remove(files, r.tmpFile), genFileName(r.nn, r.certOrKey))
     /\ handlers' = [handlers EXCEPT ![h] = UpsetReturned(r, TRUE)]
     /\ UNCHANGED <<saveToDisk, store, mu, process, requests>>

\* tmpFile.WriteString fails: Upset returns the error and the deferred
\* os.Remove deletes the temporary file.
WriteStringError(h) ==
  LET r == handlers[h]
  IN /\ Running
     /\ r.pc \in {"WriteString", "WriteRest"}
     /\ files' = Remove(files, r.tmpFile)
     /\ handlers' = [handlers EXCEPT ![h] = UpsetReturned(r, TRUE)]
     /\ UNCHANGED <<saveToDisk, store, mu, process, requests>>

\* tmpFile.Close()
Close(h) ==
  /\ Running
  /\ handlers[h].pc = "Close"
  /\ handlers' = [handlers EXCEPT ![h].pc = "Rename"]
  /\ UNCHANGED <<saveToDisk, store, files, mu, process, requests>>

\* os.Rename(tmpFile.Name(), genFileName(nodeName, certOrKey)) succeeds.
RenameTemp(h) ==
  LET r == handlers[h]
  IN /\ Running
     /\ r.pc = "Rename"
     /\ files' = Rename(files, r.tmpFile, genFileName(r.nn, r.certOrKey))
     /\ handlers' = [handlers EXCEPT ![h].pc = "Remove"]
     /\ UNCHANGED <<saveToDisk, store, mu, process, requests>>

\* The state of the process once it is gone: no goroutine, no map, no lock.
\* The files stay.
Exited(how) ==
  /\ process' = how
  /\ handlers' = [h \in Handlers |-> Idle]
  /\ store' = EmptyMap
  /\ mu' = 0

\* A faulty Upset that returns the error of os.Rename to its caller.
RenameErrorReturned(h) ==
  LET r == handlers[h]
  IN /\ Running
     /\ r.pc = "Rename"
     /\ files' = Remove(files, r.tmpFile)
     /\ handlers' = [handlers EXCEPT ![h] = UpsetReturned(r, TRUE)]
     /\ UNCHANGED <<saveToDisk, store, mu, process, requests>>

\* os.Rename fails: log.Fatalf exits the process; no deferred call runs.
RenameError(h) ==
  /\ Running
  /\ handlers[h].pc = "Rename"
  /\ Exited("fatal")
  /\ UNCHANGED <<saveToDisk, files, requests>>

\* The deferred os.Remove(tmpFile.Name()) after the rename; Upset returns nil.
RemoveTemp(h) ==
  LET r == handlers[h]
  IN /\ Running
     /\ r.pc = "Remove"
     /\ files' = Remove(files, r.tmpFile)
     /\ handlers' = [handlers EXCEPT ![h] = UpsetReturned(r, FALSE)]
     /\ UNCHANGED <<saveToDisk, store, mu, process, requests>>

(***************************************************************************)
(* The process is interrupted at any point, and started again with the     *)
(* same flags: main runs store.Init() and serves (lines 58-70).  The probe *)
(* file of DiskStore.Init is created and removed within Restart.           *)
(***************************************************************************)
Crash ==
  /\ Running
  /\ Exited("killed")
  /\ UNCHANGED <<saveToDisk, files, requests>>

\* A faulty start that clears the directory.
RestartClean ==
  /\ ~Running
  /\ process' = "running"
  /\ files' = EmptyMap
  /\ UNCHANGED <<saveToDisk, store, mu, handlers, requests>>

\* main starts again: store.Init() and http.Serve.
Restart ==
  /\ ~Running
  /\ process' = "running"
  /\ UNCHANGED <<saveToDisk, store, files, mu, handlers, requests>>

Next ==
  \/ \E h \in Handlers : Accept(h)
  \/ \E h \in Handlers, nn \in NodeNames : WhoIs(h, nn)
  \/ \E h \in Handlers : WhoIsError(h)
  \/ \E h \in Handlers : Lock(h)
  \/ \E h \in Handlers : ServeSh(h)
  \/ \E h \in Handlers, now \in Instants : ServeDays(h, now)
  \/ \E h \in Handlers, path \in Paths : ServeGet(h, path)
  \/ \E h \in Handlers, path \in PostPaths :
       \E body \in PostBodies(path) : ServePost(h, path, body)
  \/ \E h \in Handlers : ServePostReadError(h)
  \/ \E h \in Handlers, method \in Methods, path \in OtherPaths : ServeOther(h, method, path)
  \/ \E h \in Handlers : Return(h)
  \/ \E h \in Handlers, n \in TempNumbers : CreateTemp(h, n)
  \/ \E h \in Handlers : CreateTempError(h)
  \/ \E h \in Handlers : WriteString(h)
  \/ \E h \in Handlers : WriteRest(h)
  \/ \E h \in Handlers : WriteStringError(h)
  \/ \E h \in Handlers : Close(h)
  \/ \E h \in Handlers : RenameTemp(h)
  \/ \E h \in Handlers : RenameError(h)
  \/ \E h \in Handlers : RemoveTemp(h)
  \/ Crash
  \/ Restart

Spec == Init /\ [][Next]_vars

(***************************************************************************)
(* Vocabulary of the properties.                                           *)
(***************************************************************************)
Slots == {SlotCert, SlotKey}

\* The positions inside DiskStore.Upset.
UpsetPcs == {"CreateTemp", "WriteString", "WriteRest", "Close", "Rename", "Remove"}

\* The step is a step of handler h's call of store.Upset.
UpsetStep(h) ==
  /\ process' = "running"
  /\ \/ /\ handlers[h].pc = "route"
        /\ handlers'[h].method = "POST"
        /\ handlers'[h].certOrKey # EmptyString
     \/ /\ handlers[h].pc \in UpsetPcs
        /\ handlers'[h] # handlers[h]

\* The step is a step of an Upset by handler h to the record of node x and
\* slot s.
Stores(h, x, s) ==
  /\ UpsetStep(h)
  /\ handlers'[h].certOrKey = s
  /\ SameRecord(handlers'[h].nn, x)

\* Handler h has come back from store.Upset(nn, contents, certOrKey) = nil.
UpsetDone(h) ==
  /\ handlers[h].pc = "served"
  /\ handlers[h].method = "POST"
  /\ handlers[h].certOrKey # EmptyString
  /\ ~handlers[h].err

(***************************************************************************)
(* C1 -- identity isolation.                                               *)
(***************************************************************************)
\* C1 as stated: on either backend, for every two distinct node names X and
\* Y (names with a trailing '.' included) and every slot, no step of
\* Upset(X, B, s) changes the result of Get(Y, s).
C1_IsolationOfDistinctNames ==
  [][\A h \in Handlers : UpsetStep(h) =>
       \A y \in NodeNames, s \in Slots :
         y # handlers[h].nn => Get(y, s)' = Get(y, s)]_vars

\* C1 amended: on MemStore for every two distinct node names, and on
\* DiskStore for every two node names that differ after cleanNodeName, no
\* step of Upset(X, B, s) changes the result of Get(Y, s) for any slot; so
\* a blob Get(Y, s) comes to return is the blob of an Upset to Y's record.
C1_Isolation ==
  /\ [][\A h \in Handlers : UpsetStep(h) =>
          \A y \in NodeNames, s \in Slots :
            ~SameRecord(y, handlers[h].nn) => Get(y, s)' = Get(y, s)]_vars
  /\ [][\A y \in NodeNames, s \in Slots :
          Get(y, s)' # Get(y, s) /\ Get(y, s)'[2] =>
            \E h \in Handlers :
              Stores(h, y, s) /\ Get(y, s)' = <<handlers'[h].contents, TRUE>>]_vars

\* An Upset of a node has returned nil while a node of another record holds
\* a blob in the same slot, on DiskStore.
C1_Witness ==
  \E h \in Handlers, y \in NodeNames :
    /\ saveToDisk
    /\ UpsetDone(h)
    /\ ~SameRecord(y, handlers[h].nn)
    /\ Get(y, handlers[h].certOrKey)[2]

(***************************************************************************)
(* C2 -- round trip.                                                       *)
(***************************************************************************)
\* C2: on both backends, for every node name X, slot s and blob B, once
\* Upset(X, B, s) has returned nil, Get(X, s) returns (B, true), for the
\* slot given by name and given as a path.
C2_RoundTrip ==
  \A h \in Handlers : UpsetDone(h) =>
    LET r == handlers[h]
    IN /\ Get(r.nn, r.certOrKey) = <<r.contents, TRUE>>
       /\ Get(r.nn, <<"/">> \o r.certOrKey) = <<r.contents, TRUE>>

\* DiskStore.Upset has returned nil for a node name with a trailing '.'.
C2_Witness ==
  \E h \in Handlers :
    saveToDisk /\ UpsetDone(h) /\ handlers[h].nn = NodeM3Dot

(***************************************************************************)
(* C3 -- overwrite.                                                        *)
(***************************************************************************)
\* C3: on both backends, once Upset(X, B2, s) has returned nil, Get(X, s)
\* returns (B2, true) whatever B1 the slot held; and in every step the
\* result of Get(X, s) stays as it is, or becomes the whole blob of an Upset
\* to that slot taking the step, or a miss when the process ends: never
\* an earlier blob again and never a mix.
C3_Overwrite ==
  /\ [](\A h \in Handlers : UpsetDone(h) /\ handlers[h].old[2] =>
          Get(handlers[h].nn, handlers[h].certOrKey) = <<handlers[h].contents, TRUE>>)
  /\ [][\A x \in NodeNames, s \in Slots :
          \/ Get(x, s)' = Get(x, s)
          \/ \E h \in Handlers :
               Stores(h, x, s) /\ Get(x, s)' = <<handlers'[h].contents, TRUE>>
          \/ process' # "running" /\ Get(x, s)' = Missing]_vars

\* Upset(X, B2, s) has returned nil where the slot held another blob B1.
C3_Witness ==
  \E h \in Handlers :
    /\ UpsetDone(h)
    /\ handlers[h].old[2]
    /\ handlers[h].old[1] # handlers[h].contents

(***************************************************************************)
(* C4 -- slot independence.                                                *)
(***************************************************************************)
\* C4: on both backends, no step of Upset(X, B, s) changes the result of
\* Get(X, t) for the other slot t, populated or not.
C4_SlotIndependence ==
  [][\A h \in Handlers : UpsetStep(h) =>
       \A t \in Slots \ {handlers'[h].certOrKey} :
         Get(handlers[h].nn, t)' = Get(handlers[h].nn, t)]_vars

\* An Upset to one slot has returned nil while the other slot of the node
\* holds a blob.
C4_Witness ==
  \E h \in Handlers, t \in Slots :
    /\ UpsetDone(h)
    /\ t # handlers[h].certOrKey
    /\ Get(handlers[h].nn, t)[2]

(***************************************************************************)
(* C5 -- crash safety of DiskStore.                                        *)
(***************************************************************************)
\* The bodies processBody files under slot s.
BlobsOf(s) == IF s = SlotCert THEN CertBodies ELSE KeyBodies

\* C5: with DiskStore, in every state (the process running, inside Upset,
\* or ended at any step) the file of a node and slot is absent or holds a
\* whole uploaded blob; and every step leaves it as it was or, being the
\* rename of an Upset to it, puts the whole new blob there.
C5_CrashSafety ==
  /\ [](saveToDisk =>
          \A x \in NodeNames, s \in Slots :
            \/ genFileName(x, s) \notin DOMAIN files
            \/ /\ files[genFileName(x, s)] \in BlobsOf(s)
               /\ Get(x, s) = <<files[genFileName(x, s)], TRUE>>)
  /\ [][saveToDisk =>
          \A x \in NodeNames, s \in Slots :
            \/ Get(x, s)' = Get(x, s)
            \/ \E h \in Handlers :
                 /\ handlers[h].pc = "Rename"
                 /\ genFileName(handlers[h].nn, handlers[h].certOrKey) = genFileName(x, s)
                 /\ Get(x, s)' = <<handlers[h].contents, TRUE>>]_vars

\* The process has ended inside the write of an Upset: the temporary file
\* holds half of the new blob and the final file the previous blob.
C5_Witness ==
  \E x \in NodeNames, s \in Slots, n \in TempNumbers, b \in Bodies :
    /\ process = "killed"
    /\ genFileName(x, s) \in DOMAIN files
    /\ TempName(n) \in DOMAIN files
    /\ b # files[genFileName(x, s)]
    /\ processBody(b)[2] = s
    /\ files[TempName(n)] = SubSeq(b, 1, Len(b) \div 2)

(***************************************************************************)
(* Requests and responses, for the properties of the router.               *)
(***************************************************************************)
\* The text of a body before its first newline.
FirstLine(b) ==
  LET i == Index(b, NewLine) IN IF i = 0 THEN b ELSE SubSeq(b, 1, i - 1)

\* The slot a body is to be filed under by its first line, "" for none.
SlotByFirstLine(b) ==
  IF FirstLine(b) = CertMarker THEN SlotCert
  ELSE IF FirstLine(b) = KeyMarker THEN SlotKey
  ELSE EmptyString

\* Handler h has dispatched its request (it holds the lock since "route").
Dispatched(h) == handlers[h].pc \in UpsetPcs \cup {"served"} /\ mu = h

\* Handler h has written the response of a request of this method.
Served(h, method) ==
  Dispatched(h) /\ handlers[h].pc = "served" /\ handlers[h].method = method

(***************************************************************************)
(* C6 -- end-to-end round trip.                                            *)
(***************************************************************************)
\* C6 as stated: when a request resolved to X POSTs a body whose first line
\* is the certificate (private key) marker, the response is "X cert saved."
\* (key), and GET /cert (GET /key) resolved to X, with no upload in between,
\* is answered 200 with exactly the posted body.
C6_EndToEnd ==
  \A h \in Handlers :
    Served(h, "POST") /\ SlotByFirstLine(handlers[h].body) # EmptyString =>
      LET r == handlers[h]
          s == SlotByFirstLine(r.body)
      IN /\ r.w = [status |-> StatusOK, body |-> r.nn \o <<" ">> \o s \o MsgSaved]
         /\ GetResponse(r.nn, <<"/">> \o s) = [status |-> StatusOK, body |-> r.body]

(***************************************************************************)
(* C7 -- classification.                                                   *)
(***************************************************************************)
\* C7: processBody returns (body, cert) when the text before the first
\* newline is exactly the certificate marker, (body, key) when it is exactly
\* the private key marker and ("", "") otherwise; bodies with the same
\* first line get the same slot.
C7_Classification ==
  \A h \in Handlers :
    Dispatched(h) /\ handlers[h].method = "POST" =>
      LET r == handlers[h]
      IN /\ r.certOrKey = SlotByFirstLine(r.body)
         /\ r.contents = IF SlotByFirstLine(r.body) = EmptyString
                         THEN EmptyString ELSE r.body
         /\ \A b \in Bodies :
              FirstLine(b) = FirstLine(r.body) => processBody(b)[2] = r.certOrKey

\* A body whose first line is the marker followed by more was rejected.
C7_Witness ==
  \E h \in Handlers :
    /\ Served(h, "POST")
    /\ handlers[h].body = CertExtra
    /\ handlers[h].certOrKey = EmptyString

(***************************************************************************)
(* C8 -- outcomes of GET /days.                                            *)
(***************************************************************************)
\* The stored certificates that are no PEM block or no certificate.
MalformedCerts == {CertJunk, CertBare}

\* A step in which handler h answers a request of this method and path.
Answers(h, method, path) ==
  /\ handlers[h].pc = "route"
  /\ handlers'[h].pc = "served"
  /\ handlers'[h].method = method
  /\ handlers'[h].path = path

\* C8: GET /days is answered 404 when the node has no cert stored, 500 when
\* the stored cert is no PEM block or no certificate, and 200 with a decimal
\* integer otherwise; the step changes neither the map nor the files, and a
\* malformed cert is still what GET /cert returns.
C8_DaysOutcomes ==
  /\ [](\A h \in Handlers :
          Served(h, "GET") /\ handlers[h].path = PathDays =>
            LET r == handlers[h]
                got == Get(r.nn, PathCert)
            IN /\ ~got[2] => r.w.status = StatusNotFound
               /\ got[2] /\ got[1] \in MalformedCerts =>
                    /\ r.w.status = StatusInternalServerError
                    /\ GetResponse(r.nn, PathCert) =
                         [status |-> StatusOK, body |-> got[1]]
               /\ got[2] /\ got[1] \notin MalformedCerts =>
                    /\ r.w.status = StatusOK
                    /\ \E n \in -400..400 : r.w.body = Itoa(n) \o <<NewLine>>)
  /\ [][\A h \in Handlers :
          Answers(h, "GET", PathDays) => UNCHANGED <<store, files>>]_vars

\* GET /days was answered 500 for a stored cert that is no certificate.
C8_Witness ==
  \E h \in Handlers :
    /\ Served(h, "GET")
    /\ handlers[h].path = PathDays
    /\ handlers[h].w.status = StatusInternalServerError
    /\ Get(handlers[h].nn, PathCert) = <<CertJunk, TRUE>>

(***************************************************************************)
(* C9 -- expiry arithmetic.                                                *)
(***************************************************************************)
\* notAfter of the certificate stored for node nn.
NotAfterOf(nn) == ParseCertificate(pemDecode(Get(nn, PathCert)[1]).Bytes).NotAfter

\* C9 as stated: for a well-formed stored certificate GET /days returns
\* floor(h / 24), h being the hours from now to notAfter; the value is
\* negative whenever notAfter is earlier than now; and it is 10 when
\* notAfter is now + 10 days + 1 hour.
C9_ExpiryFloor ==
  \A h \in Handlers :
    Served(h, "GET") /\ handlers[h].path = PathDays
      /\ handlers[h].w.status = StatusOK =>
      LET r == handlers[h]
          hours == NotAfterOf(r.nn) - r.now
      IN /\ r.w.body = Itoa(hours \div HoursPerDay) \o <<NewLine>>
         /\ hours < 0 => \E n \in 1..400 : r.w.body = Itoa(0 - n) \o <<NewLine>>
         /\ hours = 10 * HoursPerDay + 1 => r.w.body = Itoa(10) \o <<NewLine>>

(***************************************************************************)
(* C10 -- rejected and read-only requests change no state.                 *)
(***************************************************************************)
\* The request of record r is a GET, has a method other than GET and POST,
\* or is a POST whose first line is none of the two markers.
ReadOnly(r) ==
  \/ r.method # "POST"
  \/ SlotByFirstLine(r.body) = EmptyString

\* C10: no step of a handler serving a GET, a request of another method, or
\* a POST whose first line is none of the two markers changes the map or
\* the files; another method is answered 405, a GET of a path other than
\* /sh, /days, /cert, /key 400, and such a POST 500.
C10_NoStateChange ==
  /\ [][\A h \in Handlers :
          /\ handlers'[h] # handlers[h]
          /\ process' = "running"
          /\ handlers[h].pc \notin {"idle", "whois", "lock"}
          /\ ReadOnly(IF handlers[h].pc = "route" THEN handlers'[h] ELSE handlers[h])
          => UNCHANGED <<store, files>>]_vars
  /\ [](\A h \in Handlers :
          Dispatched(h) /\ handlers[h].pc = "served" =>
            LET r == handlers[h]
            IN /\ r.method \notin {"GET", "POST"} =>
                    r.w.status = StatusMethodNotAllowed
               /\ r.method = "GET" /\ r.path \notin {PathSh, PathDays, PathCert, PathKey} =>
                    r.w.status = StatusBadRequest
               /\ r.method = "POST" /\ SlotByFirstLine(r.body) = EmptyString =>
                    r.w.status = StatusInternalServerError)

\* A POST starting with the line "hello" was rejected for a node that has
\* nothing stored.
C10_Witness ==
  \E h \in Handlers :
    /\ Served(h, "POST")
    /\ handlers[h].body = Hello
    /\ handlers[h].w.status = StatusInternalServerError
    /\ \A s \in Slots : Get(handlers[h].nn, s) = Missing

(***************************************************************************)
(* C11 -- a failed store operation is surfaced.                            *)
(***************************************************************************)
\* C11 as stated: whenever a POST is answered "<nn> <slot> saved.", the
\* Upset for that node and slot returned nil and Get returns the posted
\* body; and when Upset returned an error the response is an error: its
\* status is not 200 and its body is not the confirmation.
C11_FailureSurfaced ==
  \A h \in Handlers :
    Served(h, "POST") /\ handlers[h].certOrKey # EmptyString =>
      LET r == handlers[h]
          saved == r.nn \o <<" ">> \o r.certOrKey \o MsgSaved
      IN /\ r.w.body = saved =>
              ~r.err /\ Get(r.nn, r.certOrKey) = <<r.body, TRUE>>
         /\ r.err => r.w.status # StatusOK /\ r.w.body # saved

(***************************************************************************)
(* C12 -- identity resolution failure aborts the request.                  *)
(***************************************************************************)
\* Handler h is past lc.WhoIs without a node name: WhoIs returned an error.
WhoIsFailed(h) ==
  handlers[h].pc \notin {"idle", "whois"} /\ handlers[h].nn \notin NodeNames

\* C12: when WhoIs returns an error the request is answered 500 and the
\* handler returns: it never holds the mutex, never reaches the dispatch
\* or a step of Upset, and none of its steps changes the map, the files,
\* the mutex or another handler.
C12_WhoIsFailureAborts ==
  /\ [](\A h \in Handlers : WhoIsFailed(h) =>
          /\ handlers[h].pc = "served"
          /\ handlers[h].w.status = StatusInternalServerError
          /\ mu # h
          /\ handlers[h] = [Idle EXCEPT !.pc = "served", !.w = handlers[h].w])
  /\ [][\A h \in Handlers :
          /\ handlers'[h] # handlers[h]
          /\ process' = "running"
          /\ \/ handlers[h].pc = "whois" /\ handlers'[h].nn \notin NodeNames
             \/ WhoIsFailed(h)
          => /\ UNCHANGED <<store, files, mu>>
             /\ \A g \in Handlers \ {h} : handlers'[g] = handlers[g]]_vars

\* WhoIs failed for one request while the other handler holds the mutex
\* inside DiskStore.Upset, its temporary file written.
C12_Witness ==
  \E h \in Handlers, g \in Handlers :
    /\ WhoIsFailed(h)
    /\ mu = g
    /\ handlers[g].pc = "Rename"
    /\ handlers[g].tmpFile \in DOMAIN files

(***************************************************************************)
(* C13 -- mutual exclusion of the store logic.                             *)
(***************************************************************************)
\* Handler h is between mu.Lock() and the deferred mu.Unlock().
InCritical(h) ==
  \/ handlers[h].pc \in {"route"} \cup UpsetPcs
  \/ handlers[h].pc = "served" /\ ~WhoIsFailed(h)

\* C13: at most one handler is between mu.Lock and mu.Unlock and it is the
\* holder of mu; every step that calls store.Get or store.Upset, and every
\* step that changes the map or the files, is taken by the holder of mu; so
\* a GET of a stored slot is answered with a whole uploaded blob, and an
\* Upset that returned nil is what Get returns while the lock is held.
C13_MutualExclusion ==
  /\ [](/\ Cardinality({h \in Handlers : InCritical(h)}) <= 1
        /\ \A h \in Handlers : InCritical(h) <=> mu = h)
  /\ [][\A h \in Handlers :
          /\ handlers'[h] # handlers[h]
          /\ process' = "running"
          /\ handlers[h].pc \in {"route"} \cup UpsetPcs
          => mu = h /\ mu' = h]_vars
  /\ [][(store' # store \/ files' # files) /\ process' = process =>
          mu \in Handlers /\ mu' = mu /\ handlers'[mu] # handlers[mu]]_vars
  /\ [][\A h \in Handlers, p \in {PathCert, PathKey} :
          Answers(h, "GET", p) /\ Get(handlers[h].nn, p)[2] =>
            handlers'[h].w.body \in BlobsOf(pathToCertOrKey(p))]_vars
  /\ [](\A h \in Handlers : UpsetDone(h) =>
          Get(handlers[h].nn, handlers[h].certOrKey)[1] = handlers[h].body)

\* One handler is inside DiskStore.Upset, the temporary file half written,
\* while the other waits at mu.Lock().
C13_Witness ==
  \E h \in Handlers, g \in Handlers :
    /\ handlers[h].pc = "WriteRest"
    /\ handlers[g].pc = "lock"
    /\ mu = h

(***************************************************************************)
(* C14 -- span of the lock.                                                *)
(***************************************************************************)
\* The step is a store access by handler h or the return of a request that
\* was dispatched.
AccessOrComplete(h) ==
  /\ handlers'[h] # handlers[h]
  /\ process' = "running"
  /\ InCritical(h)

DiskStoreUpset(fs, nodeName, contents, certOrKey) ==
  LET tmp == TempName(1)
      created == Put(fs, tmp, EmptyString)
      written == Put(created, tmp, contents)
  IN Remove(Rename(written, tmp, genFileName(nodeName, certOrKey)), tmp)

StoreInit ==
  /\ saveToDisk = FALSE
  /\ store = EmptyMap
  /\ files = EmptyMap
  /\ mu = 0
  /\ handlers = [h \in Handlers |-> Idle]
  /\ process = "running"
  /\ requests = 0

\* Upset(nodeName, contents, certOrKey) on both stores.
StoreUpset(nodeName, contents, certOrKey) ==
  /\ store' = MemStoreUpset(store, nodeName, contents, certOrKey)
  /\ files' = DiskStoreUpset(files, nodeName, contents, certOrKey)
  /\ UNCHANGED <<saveToDisk, mu, handlers, process, requests>>

StoreNext ==
  \E nodeName \in NodeNames, certOrKey \in Slots :
    \E contents \in BlobsOf(certOrKey) :
      StoreUpset(nodeName, contents, certOrKey)

StoreSpec == StoreInit /\ [][StoreNext]_vars

(***************************************************************************)
(* C15 -- backend equivalence.                                             *)
(***************************************************************************)
\* C15 as stated: after every sequence of Upset calls over any node names
\* (names that differ only by a trailing '.' included) and slots, with no
\* I/O failure, MemStore.Get and DiskStore.Get return the same
\* (blob, found) for every node name and slot, given by name or as a path.
C15_BackendEquivalence ==
  \A x \in NodeNames, s \in Slots :
    /\ MemStoreGet(store, x, s) = DiskStoreGet(files, x, s)
    /\ MemStoreGet(store, x, <<"/">> \o s) = DiskStoreGet(files, x, <<"/">> \o s)

(***************************************************************************)
(* C16 -- the slot of an upload depends on the first line only.            *)
(***************************************************************************)
\* C16: a POST to any path (/cert, /key, /days and /sh included) is filed
\* under the slot of its first line: the handler's slot is the slot of the
\* first line whatever the path, the response is the confirmation for that
\* slot, no step of the Upset changes the other slot, the written slot
\* changes to the posted body only, and once Upset has returned nil the
\* slot of the first line holds the body.
C16_SlotByFirstLineOnly ==
  /\ [](\A h \in Handlers :
          Dispatched(h) /\ handlers[h].method = "POST" =>
            LET r == handlers[h]
                s == SlotByFirstLine(r.body)
            IN /\ r.certOrKey = s
               /\ r.pc = "served" /\ s # EmptyString =>
                    r.w.body = r.nn \o <<" ">> \o s \o MsgSaved
               /\ UpsetDone(h) => Get(r.nn, s) = <<r.body, TRUE>>)
  /\ [][\A h \in Handlers, b \in Bodies, s \in Slots :
          UpsetStep(h) /\ b = handlers'[h].body /\ s = SlotByFirstLine(b) =>
            /\ \A t \in Slots \ {s} :
                 Get(handlers[h].nn, t)' = Get(handlers[h].nn, t)
            /\ \/ Get(handlers[h].nn, s)' = Get(handlers[h].nn, s)
               \/ Get(handlers[h].nn, s)' = <<b, TRUE>>]_vars

\* A certificate was posted to /key: Upset has returned nil, the cert slot
\* holds the body and the key slot is still empty.
C16_Witness ==
  \E h \in Handlers :
    /\ UpsetDone(h)
    /\ handlers[h].path = PathKey
    /\ handlers[h].body = CertA
    /\ Get(handlers[h].nn, SlotCert) = <<CertA, TRUE>>
    /\ Get(handlers[h].nn, SlotKey) = Missing

(***************************************************************************)
(* C17 -- no deletion within a process lifetime.                           *)
(***************************************************************************)
\* C17 as stated: while the process runs, a slot for which Get(X, s) finds
\* a blob is found after every step, and changes only by becoming the body
\* of an upload to s by a handler whose resolved node name is X.
C17_NoDeletionByName ==
  [][process = "running" /\ process' = "running" =>
       \A x \in NodeNames, s \in Slots : Get(x, s)[2] =>
         /\ Get(x, s)'[2]
         /\ \/ Get(x, s)' = Get(x, s)
            \/ \E h \in Handlers :
                 /\ UpsetStep(h)
                 /\ handlers'[h].certOrKey = s
                 /\ handlers'[h].nn = x
                 /\ Get(x, s)' = <<handlers'[h].body, TRUE>>]_vars

\* C17 amended: while the process runs, a slot for which Get(X, s) finds a
\* blob is found after every step of every request, and changes only by
\* becoming the body of an upload to s by a handler resolved to X or, on
\* DiskStore, to a node name equal to X after cleanNodeName.
C17_NoDeletion ==
  [][process = "running" /\ process' = "running" =>
       \A x \in NodeNames, s \in Slots : Get(x, s)[2] =>
         /\ Get(x, s)'[2]
         /\ \/ Get(x, s)' = Get(x, s)
            \/ \E h \in Handlers :
                 Stores(h, x, s) /\ Get(x, s)' = <<handlers'[h].body, TRUE>>]_vars

\* With a cert stored for one node, the write of an upload of another
\* record has failed and was answered: the stored cert is still found.
C17_Witness ==
  \E h \in Handlers, x \in NodeNames :
    /\ Served(h, "POST")
    /\ handlers[h].err
    /\ ~SameRecord(handlers[h].nn, x)
    /\ Get(x, SlotCert)[2]

(***************************************************************************)
(* C18 -- persistence failures of DiskStore.                               *)
(***************************************************************************)
\* C18: a step out of os.Rename either completes the rename or ends the
\* process; when the rename fails the process is gone with no response
\* written and the files as they were, and it takes no further step; when
\* os.CreateTemp or WriteString fails, Upset returns the error, the
\* process keeps running and the temporary file is removed; and until the
\* rename completes, and after each of these failures, Get returns what
\* the slot held when Upset was called.
C18_PersistenceFailure ==
  /\ [][\A h \in Handlers :
          handlers[h].pc = "Rename" /\ handlers'[h] # handlers[h] =>
            \/ /\ process' = "running"
               /\ handlers'[h].pc = "Remove"
               /\ Get(handlers[h].nn, handlers[h].certOrKey)' =
                    <<handlers[h].contents, TRUE>>
            \/ /\ process' # "running"
               /\ files' = files
               /\ \A g \in Handlers : handlers'[g] = Idle]_vars
  /\ [][process' = "fatal" /\ process = "running" =>
          \E h \in Handlers : handlers[h].pc = "Rename"]_vars
  /\ [][process = "fatal" =>
          UNCHANGED <<handlers, files, store, mu, requests>>]_vars
  /\ [][\A h \in Handlers :
          handlers[h].pc \in {"CreateTemp", "WriteString", "WriteRest"}
            /\ handlers'[h].pc = "served" =>
              /\ handlers'[h].err
              /\ process' = "running"
              /\ handlers[h].tmpFile \notin DOMAIN files'
              /\ \A x \in NodeNames, s \in Slots : Get(x, s)' = Get(x, s)]_vars
  /\ [](\A h \in Handlers :
          \/ handlers[h].pc \in UpsetPcs \ {"Remove"}
          \/ handlers[h].pc = "served" /\ handlers[h].err
          => Get(handlers[h].nn, handlers[h].certOrKey) = handlers[h].old)

\* The process has ended on a failed rename: the final file of a slot holds
\* the previous blob and the temporary file the whole new one.
C18_Witness ==
  \E x \in NodeNames, s \in Slots, n \in TempNumbers :
    /\ process = "fatal"
    /\ genFileName(x, s) \in DOMAIN files
    /\ TempName(n) \in DOMAIN files
    /\ files[TempName(n)] \in BlobsOf(s)
    /\ files[TempName(n)] # files[genFileName(x, s)]

(***************************************************************************)
(* C19 -- restart.                                                         *)
(***************************************************************************)
\* C19 as stated: with MemStore every Get returns a miss after a restart;
\* with DiskStore no end of the process and no restart changes the result
\* of any Get, and Get(X, s) changes only in the step that completes the
\* rename of an Upset(X, ., s), of a handler whose resolved node name is X.
C19_RestartByName ==
  /\ [][~saveToDisk /\ process # "running" /\ process' = "running" =>
          \A x \in NodeNames, s \in Slots : Get(x, s)' = Missing]_vars
  /\ [][saveToDisk /\ process' # process =>
          \A x \in NodeNames, s \in Slots : Get(x, s)' = Get(x, s)]_vars
  /\ [][saveToDisk =>
          \A x \in NodeNames, s \in Slots :
            Get(x, s)' # Get(x, s) =>
              \E h \in Handlers :
                /\ handlers[h].pc = "Rename"
                /\ handlers[h].certOrKey = s
                /\ handlers[h].nn = x
                /\ Get(x, s)' = <<handlers[h].contents, TRUE>>]_vars

\* C19 amended: with MemStore, once the process has ended and when it has
\* started again every Get returns a miss; with DiskStore, no end of the
\* process (killed at any point, or exited on a failed rename) and no
\* restart changes the result of any Get, and Get(X, s) changes only in the
\* step that completes the rename of an Upset to s by a handler resolved to
\* a node name equal to X after cleanNodeName, to the blob of that Upset:
\* after a restart Get returns the blob of the last such Upset whose rename
\* completed.
C19_Restart ==
  /\ [](~saveToDisk /\ process # "running" =>
          \A x \in NodeNames, s \in Slots : Get(x, s) = Missing)
  /\ [][~saveToDisk /\ process # "running" /\ process' = "running" =>
          \A x \in NodeNames, s \in Slots : Get(x, s)' = Missing]_vars
  /\ [][saveToDisk /\ process' # process =>
          \A x \in NodeNames, s \in Slots : Get(x, s)' = Get(x, s)]_vars
  /\ [][saveToDisk =>
          \A x \in NodeNames, s \in Slots :
            Get(x, s)' # Get(x, s) =>
              \E h \in Handlers :
                /\ handlers[h].pc = "Rename"
                /\ handlers'[h].pc = "Remove"
                /\ handlers[h].certOrKey = s
                /\ SameRecord(handlers[h].nn, x)
                /\ Get(x, s)' = <<handlers[h].contents, TRUE>>]_vars

\* The process runs again after it ended inside an Upset: no request is in
\* progress, a temporary file of the old process is left, and a slot holds
\* the blob renamed before.
C19_Witness ==
  \E x \in NodeNames, s \in Slots, n \in TempNumbers :
    /\ saveToDisk
    /\ process = "running"
    /\ \A h \in Handlers : handlers[h].pc = "idle"
    /\ TempName(n) \in DOMAIN files
    /\ Get(x, s)[2]
    /\ Get(x, s)[1] # files[TempName(n)]

(***************************************************************************)
(* C20 -- miss signalling of GET /cert and GET /key.                       *)
(***************************************************************************)
\* C20 as stated: GET /cert or GET /key for a slot that is not stored for
\* the node is answered with status 404 and the body "no <path> for <nn>";
\* for a stored slot with status 200 and the blob as the body.
C20_MissSignalling ==
  \A h \in Handlers :
    Served(h, "GET") /\ handlers[h].path \in {PathCert, PathKey} =>
      LET r == handlers[h]
          got == Get(r.nn, r.path)
      IN /\ ~got[2] =>
              /\ r.w.status = StatusNotFound
              /\ r.w.body = MsgNo \o r.path \o MsgFor \o r.nn
         /\ got[2] => r.w = [status |-> StatusOK, body |-> got[1]]

(***************************************************************************)
(* Fair scheduling: a goroutine that can take a step eventually takes one  *)
(* (lc.WhoIs and the client's I/O return, the Go scheduler runs every      *)
(* runnable goroutine, a system call returns).  Nothing obliges a request  *)
(* to arrive, the process to be killed or to be started again.             *)
(***************************************************************************)
\* A step of the goroutine h after its request was accepted.
HandlerStep(h) ==
  \/ \E nn \in NodeNames : WhoIs(h, nn)
  \/ WhoIsError(h)
  \/ Lock(h)
  \/ ServeSh(h)
  \/ \E now \in Instants : ServeDays(h, now)
  \/ \E path \in Paths : ServeGet(h, path)
  \/ \E path \in PostPaths : \E body \in PostBodies(path) : ServePost(h, path, body)
  \/ ServePostReadError(h)
  \/ \E method \in Methods, path \in OtherPaths : ServeOther(h, method, path)
  \/ Return(h)
  \/ \E n \in TempNumbers : CreateTemp(h, n)
  \/ CreateTempError(h)
  \/ WriteString(h)
  \/ WriteRest(h)
  \/ WriteStringError(h)
  \/ Close(h)
  \/ RenameTemp(h)
  \/ RenameError(h)
  \/ RemoveTemp(h)

FairSpec == Spec /\ \A h \in Handlers : WF_vars(HandlerStep(h))

(***************************************************************************)
(* C21 -- lock release and progress.                                       *)
(***************************************************************************)
\* C21: a handler holding mu gives it up only by returning after its
\* response is written, and then always does, whatever the outcome; a
\* handler with no request never holds mu; the only step of the code in
\* which a lock holder ends without returning is the failed rename that
\* exits the process; and under fair scheduling every accepted request
\* gets a response and every held lock is released, unless the process
\* ends first.
C21_ReleaseAndProgress ==
  /\ [](\A h \in Handlers : handlers[h].pc = "idle" => mu # h)
  /\ [][\A h \in Handlers :
          mu = h /\ handlers'[h].pc = "idle" =>
            /\ mu' = 0
            /\ \/ handlers[h].pc = "served" /\ process' = "running"
               \/ process' # "running"]_vars
  /\ [][process' = "fatal" /\ process = "running" =>
          \E h \in Handlers : handlers[h].pc = "Rename" /\ mu = h]_vars
  /\ \A h \in Handlers :
       handlers[h].pc = "whois" ~>
         (handlers[h].pc = "served" \/ process # "running")
  /\ \A h \in Handlers : mu = h ~> mu = 0

\* A handler holds the lock with an error response written while the
\* other waits at mu.Lock().
C21_Witness ==
  \E h \in Handlers, g \in Handlers :
    /\ handlers[g].pc = "lock"
    /\ mu = h
    /\ handlers[h].pc = "served"
    /\ handlers[h].w.status # StatusOK

====
